---- MODULE Spec2Model ----
(***************************************************************************)
(* Model of the church record service of src/src/index.ts: six stable maps *)
(* (members, events, donations, prayer requests, content, contributions)   *)
(* and the express handlers that validate a JSON body and read or write    *)
(* them.  Every handler runs to completion, so one handler is one action.  *)
(***************************************************************************)
EXTENDS Integers, Sequences, FiniteSets, TLC

\* Number of identifiers the uuid generator hands out in a run.
MaxIds == 2
\* Number of times the clock advances in a run.
MaxTime == 1

(***************************************************************************)
(* JavaScript values as they arrive in a decoded JSON body.                *)
(***************************************************************************)
Undef == [k |-> "undefined", s |-> "", n |-> 0]
Null == [k |-> "null", s |-> "", n |-> 0]
Str(x) == [k |-> "string", s |-> x, n |-> 0]
Num(i) == [k |-> "number", s |-> "", n |-> i]
\* A Date object holding the time value ms.
DateOf(ms) == [k |-> "date", s |-> "", n |-> ms]
\* The Date object whose time value is NaN.
InvalidDate == [k |-> "date", s |-> "Invalid Date", n |-> 0]

\* typeof v
TypeOf(v) ==
  IF v.k \in {"null", "date", "record"} THEN "object" ELSE v.k

\* ToBoolean(v): the value of !!v
Truthy(v) ==
  CASE v.k = "string" -> v.s # ""
    [] v.k = "number" -> v.n # 0
    [] v.k = "undefined" -> FALSE
    [] v.k = "null" -> FALSE
    [] OTHER -> TRUE

\* The two timestamp strings the model sends, and their time values.
Iso5 == "1970-01-01T00:00:00.005Z"

\* new Date(v) for a decoded JSON value v
NewDate(v) ==
  CASE v.k = "number" -> DateOf(v.n)
    [] v.k = "null" -> DateOf(0)
    [] v.k = "string" /\ v.s = Iso5 -> DateOf(5)
    [] OTHER -> InvalidDate

(***************************************************************************)
(* State.                                                                  *)
(***************************************************************************)
VARIABLES
  membersStorage,         \* id -> Member
  eventsStorage,          \* id -> Event
  donationsStorage,       \* id -> Donation
  prayerRequestsStorage,  \* id -> PrayerRequest
  contentStorage,         \* id -> Content
  contributionsStorage,   \* id -> Contribution
  nextId,                 \* how many identifiers uuidv4 has returned
  now,                    \* the clock read by new Date()
  absent,                 \* what StableBTreeMap.get returns for a missing key
  removed,                \* history: ids removed by membersStorage.remove
  resp                    \* the last request and the status sent for it

stores == <<membersStorage, eventsStorage, donationsStorage,
            prayerRequestsStorage, contentStorage, contributionsStorage>>
vars == <<membersStorage, eventsStorage, donationsStorage,
          prayerRequestsStorage, contentStorage, contributionsStorage,
          nextId, now, absent, removed, resp>>

\* The identifiers uuidv4 returns, in the order it returns them.
IdSeq == <<"id1", "id2", "id3", "id4", "id5", "id6">>
\* uuidv4(): a value never returned before
uuidv4 == IdSeq[nextId + 1]
\* Keys a request may name: every identifier, and one never generated.
Keys == {IdSeq[i] : i \in 1..MaxIds} \cup {"ghost"}

(***************************************************************************)
(* StableBTreeMap                                                          *)
(***************************************************************************)
EmptyMap == [x \in {} |-> Undef]
StoreInsert(store, key, value) ==
  [x \in DOMAIN store \cup {key} |-> IF x = key THEN value ELSE store[x]]
StoreRemove(store, key) ==
  [x \in DOMAIN store \ {key} |-> store[x]]
\* get: the stored value, or the library's marker for a missing key.  The
\* library (azle) is not part of the repository; the handlers read the result
\* as a Member that may be missing (!member, member.name), which a result of
\* undefined and a result of null both satisfy, so the marker is either one.
StoreGet(store, key) ==
  IF key \in DOMAIN store
  THEN [k |-> "record", rec |-> store[key]]
  ELSE [k |-> absent]
\* values(): the records in key order
StoreValues(store) ==
  LET keys == SelectSeq(IdSeq, LAMBDA x : x \in DOMAIN store)
  IN [i \in 1..Len(keys) |-> store[keys[i]]]

(***************************************************************************)
(* Entity constructors                                                     *)
(***************************************************************************)
\* A Member whose id is not taken from a fresh uuidv4() call.
NewMember_SharedId(name, contact, membershipStatus) ==
  [id |-> IdSeq[1], name |-> name, contact |-> contact,
   membershipStatus |-> membershipStatus, createdAt |-> DateOf(now)]

NewMember(name, contact, membershipStatus) ==
  [id |-> uuidv4, name |-> name, contact |-> contact,
   membershipStatus |-> membershipStatus, createdAt |-> DateOf(now)]

NewEvent(title, description, dateTime, location) ==
  [id |-> uuidv4, title |-> title, description |-> description,
   dateTime |-> dateTime, location |-> location, createdAt |-> DateOf(now)]

NewDonation(donorId, amount) ==
  [id |-> uuidv4, donorId |-> donorId, amount |-> amount,
   createdAt |-> DateOf(now)]

NewContribution(memberId, type, amount, description, commitmentDate) ==
  [id |-> uuidv4, memberId |-> memberId, type |-> type, amount |-> amount,
   description |-> description,
   commitmentDate |-> IF Truthy(commitmentDate) THEN commitmentDate
                      ELSE DateOf(now),
   fulfillmentDate |-> Null, createdAt |-> DateOf(now)]

NewPrayerRequest(memberId, request) ==
  [id |-> uuidv4, memberId |-> memberId, request |-> request,
   createdAt |-> DateOf(now)]

NewContent(type, title, content) ==
  [id |-> uuidv4, type |-> type, title |-> title, content |-> content,
   createdAt |-> DateOf(now)]

\* !v || typeof v !== "string"
NotString(v) == ~Truthy(v) \/ TypeOf(v) # "string"
\* !v || typeof v !== "number"
NotNumber(v) == ~Truthy(v) \/ TypeOf(v) # "number"

Response(op, status, id, body) ==
  [op |-> op, status |-> status, id |-> id, body |-> body]

Init ==
  /\ membersStorage = EmptyMap
  /\ eventsStorage = EmptyMap
  /\ donationsStorage = EmptyMap
  /\ prayerRequestsStorage = EmptyMap
  /\ contentStorage = EmptyMap
  /\ contributionsStorage = EmptyMap
  /\ nextId = 0
  /\ now = 0
  /\ absent \in {"undefined", "null"}
  /\ removed = {}
  /\ resp = [op |-> "none", status |-> 0, id |-> "", body |-> [items |-> <<>>]]

(***************************************************************************)
(* Request bodies the model sends.                                         *)
(***************************************************************************)
\* IllFormed(v, good) counts a field whose value is not a well-formed one.
IllFormed(v, good) == IF v \in good THEN 0 ELSE 1
\* Values sent for each field: the well-formed ones, and ill-formed ones
\* (missing, empty, or of another type).
NameInputs == {Undef, Str(""), Str("a"), Num(7)}
ContactInputs == {Str(""), Str("c")}
StatusInputs == {Undef, Str("Active")}
TitleInputs == {Str(""), Num(7), Str("t")}
DescriptionInputs == {Undef, Str("d")}
LocationInputs == {Str(""), Str("l")}
DateTimeInputs == {Undef, Str(Iso5), Str("soon")}
DonorInputs == {Undef, Str(""), Num(7), Str("a")}
AmountInputs == {Undef, Num(0), Str("5"), Num(5), Num(-5)}
\* A contribution names the first identifier generated, or one never generated.
MemberIdInputs == {Undef, Str(IdSeq[1]), Str("ghost")}
TypeInputs == {Num(7), Str("Pledge"), Str("Tithe")}
ContributionAmountInputs == {Num(0), Num(5)}
CommitmentDateInputs == {Undef, Str(Iso5)}
PrayerMemberInputs == {Num(7), Str("ghost")}

\* The request bodies sent: every field well-formed, or exactly one field
\* ill-formed.
MemberBodies ==
  {b \in [name : NameInputs, contact : ContactInputs,
          membershipStatus : StatusInputs] :
     IllFormed(b.name, {Str("a")}) + IllFormed(b.contact, {Str("c")})
       + IllFormed(b.membershipStatus, {Str("Active")}) <= 1}
EventBodies ==
  {b \in [title : TitleInputs, description : DescriptionInputs,
          dateTime : DateTimeInputs, location : LocationInputs] :
     IllFormed(b.title, {Str("t")}) + IllFormed(b.description, {Str("d")})
       + IllFormed(b.dateTime, {Str(Iso5), Str("soon")})
       + IllFormed(b.location, {Str("l")}) <= 1}
DonationBodies ==
  {b \in [donorId : DonorInputs, amount : AmountInputs] :
     IllFormed(b.donorId, {Str("a")})
       + IllFormed(b.amount, {Num(5), Num(-5)}) <= 1}
ContributionBodies ==
  {b \in [memberId : MemberIdInputs, type : TypeInputs,
          amount : ContributionAmountInputs, description : DescriptionInputs,
          commitmentDate : CommitmentDateInputs] :
     IllFormed(b.memberId, {Str(IdSeq[1]), Str("ghost")})
       + IllFormed(b.type, {Str("Pledge"), Str("Tithe")})
       + IllFormed(b.amount, {Num(5)})
       + IllFormed(b.description, {Str("d")})
       + (IF b.type = Str("Pledge") /\ b.commitmentDate = Undef
          THEN 1 ELSE 0) <= 1}
PrayerRequestBodies ==
  {b \in [memberId : PrayerMemberInputs, request : DescriptionInputs] :
     IllFormed(b.memberId, {Str("ghost")})
       + IllFormed(b.request, {Str("d")}) <= 1}
ContentBodies ==
  {b \in [type : TitleInputs, title : TitleInputs, content : DescriptionInputs] :
     IllFormed(b.type, {Str("t")}) + IllFormed(b.title, {Str("t")})
       + IllFormed(b.content, {Str("d")}) <= 1}

MemberBody(name, contact, membershipStatus) ==
  [name |-> name, contact |-> contact, membershipStatus |-> membershipStatus]

(***************************************************************************)
(* Member handlers.  The catch branches (status 500) are taken only when   *)
(* the constructor or the store throws, which the store modelled here      *)
(* never does.                                                             *)
(***************************************************************************)
\* app.post("/members")
CreateMember(name, contact, membershipStatus) ==
  IF NotString(name) \/ NotString(contact) \/ NotString(membershipStatus)
  THEN /\ resp' = Response("createMember", 400, "",
                           MemberBody(name, contact, membershipStatus))
       /\ UNCHANGED <<stores, nextId, now, absent, removed>>
  ELSE /\ nextId < MaxIds
       /\ LET member == NewMember(name, contact, membershipStatus)
          IN /\ membersStorage' = StoreInsert(membersStorage, member.id, member)
             /\ resp' = Response("createMember", 201, member.id,
                                 MemberBody(name, contact, membershipStatus))
       /\ nextId' = nextId + 1
       /\ UNCHANGED <<eventsStorage, donationsStorage, prayerRequestsStorage,
                      contentStorage, contributionsStorage, now, absent, removed>>

\* app.get("/members")
ListMembers ==
  /\ resp' = Response("listMembers", 200, "",
                      [items |-> StoreValues(membersStorage)])
  /\ UNCHANGED <<stores, nextId, now, absent, removed>>

\* app.get("/members/:id")
GetMember(id) ==
  LET member == StoreGet(membersStorage, id)
  IN /\ resp' = IF ~Truthy(member)
                THEN Response("getMember", 404, id, [items |-> <<>>])
                ELSE Response("getMember", 200, id, [items |-> <<member.rec>>])
     /\ UNCHANGED <<stores, nextId, now, absent, removed>>

\* An update that writes the name before it validates the body.
UpdateMember_WriteBeforeValidate(id, name, contact, membershipStatus) ==
  LET member == StoreGet(membersStorage, id)
      body == MemberBody(name, contact, membershipStatus)
  IN IF ~Truthy(member)
     THEN /\ resp' = Response("updateMember", 404, id, body)
          /\ UNCHANGED <<stores, nextId, now, absent, removed>>
     ELSE IF ~Truthy(name) \/ ~Truthy(contact) \/ ~Truthy(membershipStatus)
     THEN /\ membersStorage' =
               StoreInsert(membersStorage, id, [member.rec EXCEPT !.name = name])
          /\ resp' = Response("updateMember", 400, id, body)
          /\ UNCHANGED <<eventsStorage, donationsStorage, prayerRequestsStorage,
                         contentStorage, contributionsStorage,
                         nextId, now, absent, removed>>
     ELSE /\ membersStorage' =
               StoreInsert(membersStorage, id,
                           [member.rec EXCEPT !.name = name,
                                              !.contact = contact,
                                              !.membershipStatus = membershipStatus])
          /\ resp' = Response("updateMember", 200, id, body)
          /\ UNCHANGED <<eventsStorage, donationsStorage, prayerRequestsStorage,
                         contentStorage, contributionsStorage,
                         nextId, now, absent, removed>>

\* An update that validates the body before it looks the member up.
UpdateMember_ValidateFirst(id, name, contact, membershipStatus) ==
  LET member == StoreGet(membersStorage, id)
      body == MemberBody(name, contact, membershipStatus)
  IN IF ~Truthy(name) \/ ~Truthy(contact) \/ ~Truthy(membershipStatus)
     THEN /\ resp' = Response("updateMember", 400, id, body)
          /\ UNCHANGED <<stores, nextId, now, absent, removed>>
     ELSE IF ~Truthy(member)
     THEN /\ resp' = Response("updateMember", 404, id, body)
          /\ UNCHANGED <<stores, nextId, now, absent, removed>>
     ELSE /\ membersStorage' =
               StoreInsert(membersStorage, id,
                           [member.rec EXCEPT !.name = name,
                                              !.contact = contact,
                                              !.membershipStatus = membershipStatus])
          /\ resp' = Response("updateMember", 200, id, body)
          /\ UNCHANGED <<eventsStorage, donationsStorage, prayerRequestsStorage,
                         contentStorage, contributionsStorage,
                         nextId, now, absent, removed>>

\* An update that stores a rebuilt record, stamped with the current time.
UpdateMember_Rebuild(id, name, contact, membershipStatus) ==
  LET member == StoreGet(membersStorage, id)
      body == MemberBody(name, contact, membershipStatus)
  IN IF ~Truthy(member)
     THEN /\ resp' = Response("updateMember", 404, id, body)
          /\ UNCHANGED <<stores, nextId, now, absent, removed>>
     ELSE IF ~Truthy(name) \/ ~Truthy(contact) \/ ~Truthy(membershipStatus)
     THEN /\ resp' = Response("updateMember", 400, id, body)
          /\ UNCHANGED <<stores, nextId, now, absent, removed>>
     ELSE /\ membersStorage' =
               StoreInsert(membersStorage, id,
                           [id |-> id, name |-> name, contact |-> contact,
                            membershipStatus |-> membershipStatus,
                            createdAt |-> DateOf(now)])
          /\ resp' = Response("updateMember", 200, id, body)
          /\ UNCHANGED <<eventsStorage, donationsStorage, prayerRequestsStorage,
                         contentStorage, contributionsStorage,
                         nextId, now, absent, removed>>

\* app.put("/members/:id")
UpdateMember(id, name, contact, membershipStatus) ==
  LET member == StoreGet(membersStorage, id)
      body == MemberBody(name, contact, membershipStatus)
  IN IF ~Truthy(member)
     THEN /\ resp' = Response("updateMember", 404, id, body)
          /\ UNCHANGED <<stores, nextId, now, absent, removed>>
     ELSE IF ~Truthy(name) \/ ~Truthy(contact) \/ ~Truthy(membershipStatus)
     THEN /\ resp' = Response("updateMember", 400, id, body)
          /\ UNCHANGED <<stores, nextId, now, absent, removed>>
     ELSE /\ membersStorage' =
               StoreInsert(membersStorage, id,
                           [member.rec EXCEPT !.name = name,
                                              !.contact = contact,
                                              !.membershipStatus = membershipStatus])
          /\ resp' = Response("updateMember", 200, id, body)
          /\ UNCHANGED <<eventsStorage, donationsStorage, prayerRequestsStorage,
                         contentStorage, contributionsStorage,
                         nextId, now, absent, removed>>

\* app.delete("/members/:id")
DeleteMember(id) ==
  LET member == StoreGet(membersStorage, id)
  IN IF ~Truthy(member)
     THEN /\ resp' = Response("deleteMember", 404, id, [items |-> <<>>])
          /\ UNCHANGED <<stores, nextId, now, absent, removed>>
     ELSE /\ membersStorage' = StoreRemove(membersStorage, id)
          /\ removed' = removed \cup {id}
          /\ resp' = Response("deleteMember", 200, id, [items |-> <<>>])
          /\ UNCHANGED <<eventsStorage, donationsStorage, prayerRequestsStorage,
                         contentStorage, contributionsStorage,
                         nextId, now, absent>>

(***************************************************************************)
(* Event handlers                                                          *)
(***************************************************************************)
EventBody(title, description, dateTime, location) ==
  [title |-> title, description |-> description, dateTime |-> dateTime,
   location |-> location]

\* app.post("/events")
CreateEvent(title, description, dateTime, location) ==
  IF NotString(title) \/ NotString(description) \/ ~Truthy(dateTime)
     \/ NotString(location)
  THEN /\ resp' = Response("createEvent", 400, "",
                           EventBody(title, description, dateTime, location))
       /\ UNCHANGED <<stores, nextId, now, absent, removed>>
  ELSE /\ nextId < MaxIds
       /\ LET event == NewEvent(title, description, NewDate(dateTime), location)
          IN /\ eventsStorage' = StoreInsert(eventsStorage, event.id, event)
             /\ resp' = Response("createEvent", 201, event.id,
                                 EventBody(title, description, dateTime, location))
       /\ nextId' = nextId + 1
       /\ UNCHANGED <<membersStorage, donationsStorage, prayerRequestsStorage,
                      contentStorage, contributionsStorage, now, absent, removed>>

\* app.get("/events")
ListEvents ==
  /\ resp' = Response("listEvents", 200, "",
                      [items |-> StoreValues(eventsStorage)])
  /\ UNCHANGED <<stores, nextId, now, absent, removed>>

(***************************************************************************)
(* Donation handlers                                                       *)
(***************************************************************************)
DonationBody(donorId, amount) == [donorId |-> donorId, amount |-> amount]

\* app.post("/donations")
CreateDonation(donorId, amount) ==
  IF NotString(donorId) \/ NotNumber(amount)
  THEN /\ resp' = Response("createDonation", 400, "",
                           DonationBody(donorId, amount))
       /\ UNCHANGED <<stores, nextId, now, absent, removed>>
  ELSE /\ nextId < MaxIds
       /\ LET donation == NewDonation(donorId, amount)
          IN /\ donationsStorage' =
                  StoreInsert(donationsStorage, donation.id, donation)
             /\ resp' = Response("createDonation", 201, donation.id,
                                 DonationBody(donorId, amount))
       /\ nextId' = nextId + 1
       /\ UNCHANGED <<membersStorage, eventsStorage, prayerRequestsStorage,
                      contentStorage, contributionsStorage, now, absent, removed>>

\* app.get("/donations")
ListDonations ==
  /\ resp' = Response("listDonations", 200, "",
                      [items |-> StoreValues(donationsStorage)])
  /\ UNCHANGED <<stores, nextId, now, absent, removed>>

(***************************************************************************)
(* Contribution handlers                                                   *)
(***************************************************************************)
ContributionBody(memberId, type, amount, description, commitmentDate) ==
  [memberId |-> memberId, type |-> type, amount |-> amount,
   description |-> description, commitmentDate |-> commitmentDate]

\* A handler that hands the body's commitmentDate to the constructor for
\* every type.
CreateContribution_AlwaysPassDate(memberId, type, amount, description, commitmentDate) ==
  LET body == ContributionBody(memberId, type, amount, description,
                               commitmentDate)
  IN IF NotString(memberId) \/ NotString(type) \/ NotNumber(amount)
        \/ NotString(description)
        \/ (type = Str("Pledge") /\ ~Truthy(commitmentDate))
     THEN /\ resp' = Response("createContribution", 400, "", body)
          /\ UNCHANGED <<stores, nextId, now, absent, removed>>
     ELSE IF StoreGet(membersStorage, memberId.s).k = "undefined"
     THEN /\ resp' = Response("createContribution", 404, "", body)
          /\ UNCHANGED <<stores, nextId, now, absent, removed>>
     ELSE /\ nextId < MaxIds
          /\ LET contribution ==
                   NewContribution(memberId, type, amount, description,
                                   IF Truthy(commitmentDate)
                                   THEN NewDate(commitmentDate) ELSE Undef)
             IN /\ contributionsStorage' =
                     StoreInsert(contributionsStorage, contribution.id,
                                 contribution)
                /\ resp' = Response("createContribution", 201,
                                    contribution.id, body)
          /\ nextId' = nextId + 1
          /\ UNCHANGED <<membersStorage, eventsStorage, donationsStorage,
                         prayerRequestsStorage, contentStorage,
                         now, absent, removed>>

\* app.post("/contributions")
CreateContribution(memberId, type, amount, description, commitmentDate) ==
  LET body == ContributionBody(memberId, type, amount, description,
                               commitmentDate)
  IN IF NotString(memberId) \/ NotString(type) \/ NotNumber(amount)
        \/ NotString(description)
        \/ (type = Str("Pledge") /\ ~Truthy(commitmentDate))
     THEN /\ resp' = Response("createContribution", 400, "", body)
          /\ UNCHANGED <<stores, nextId, now, absent, removed>>
     ELSE IF StoreGet(membersStorage, memberId.s).k = "undefined"
     THEN /\ resp' = Response("createContribution", 404, "", body)
          /\ UNCHANGED <<stores, nextId, now, absent, removed>>
     ELSE /\ nextId < MaxIds
          /\ LET contribution ==
                   NewContribution(memberId, type, amount, description,
                                   IF type = Str("Pledge")
                                   THEN NewDate(commitmentDate) ELSE Undef)
             IN /\ contributionsStorage' =
                     StoreInsert(contributionsStorage, contribution.id,
                                 contribution)
                /\ resp' = Response("createContribution", 201,
                                    contribution.id, body)
          /\ nextId' = nextId + 1
          /\ UNCHANGED <<membersStorage, eventsStorage, donationsStorage,
                         prayerRequestsStorage, contentStorage,
                         now, absent, removed>>

\* app.get("/contributions")
ListContributions ==
  /\ resp' = Response("listContributions", 200, "",
                      [items |-> StoreValues(contributionsStorage)])
  /\ UNCHANGED <<stores, nextId, now, absent, removed>>

(***************************************************************************)
(* Prayer request handlers                                                 *)
(***************************************************************************)
PrayerRequestBody(memberId, request) ==
  [memberId |-> memberId, request |-> request]

\* app.post("/prayer-requests")
CreatePrayerRequest(memberId, request) ==
  IF NotString(memberId) \/ NotString(request)
  THEN /\ resp' = Response("createPrayerRequest", 400, "",
                           PrayerRequestBody(memberId, request))
       /\ UNCHANGED <<stores, nextId, now, absent, removed>>
  ELSE /\ nextId < MaxIds
       /\ LET prayerRequest == NewPrayerRequest(memberId, request)
          IN /\ prayerRequestsStorage' =
                  StoreInsert(prayerRequestsStorage, prayerRequest.id,
                              prayerRequest)
             /\ resp' = Response("createPrayerRequest", 201, prayerRequest.id,
                                 PrayerRequestBody(memberId, request))
       /\ nextId' = nextId + 1
       /\ UNCHANGED <<membersStorage, eventsStorage, donationsStorage,
                      contentStorage, contributionsStorage, now, absent, removed>>

\* app.get("/prayer-requests")
ListPrayerRequests ==
  /\ resp' = Response("listPrayerRequests", 200, "",
                      [items |-> StoreValues(prayerRequestsStorage)])
  /\ UNCHANGED <<stores, nextId, now, absent, removed>>

(***************************************************************************)
(* Content handlers                                                        *)
(***************************************************************************)
ContentBody(type, title, content) ==
  [type |-> type, title |-> title, content |-> content]

\* app.post("/contents")
CreateContent(type, title, content) ==
  IF NotString(type) \/ NotString(title) \/ NotString(content)
  THEN /\ resp' = Response("createContent", 400, "",
                           ContentBody(type, title, content))
       /\ UNCHANGED <<stores, nextId, now, absent, removed>>
  ELSE /\ nextId < MaxIds
       /\ LET content_ == NewContent(type, title, content)
          IN /\ contentStorage' = StoreInsert(contentStorage, content_.id, content_)
             /\ resp' = Response("createContent", 201, content_.id,
                                 ContentBody(type, title, content))
       /\ nextId' = nextId + 1
       /\ UNCHANGED <<membersStorage, eventsStorage, donationsStorage,
                      prayerRequestsStorage, contributionsStorage,
                      now, absent, removed>>

\* app.get("/contents")
ListContents ==
  /\ resp' = Response("listContents", 200, "",
                      [items |-> StoreValues(contentStorage)])
  /\ UNCHANGED <<stores, nextId, now, absent, removed>>

(***************************************************************************)
(* The clock read by new Date() advances between requests.  Within one     *)
(* request every new Date() reads the same instant: a canister message     *)
(* executes at a single time.                                              *)
(***************************************************************************)
Tick ==
  /\ now < MaxTime
  /\ now' = now + 1
  /\ UNCHANGED <<stores, nextId, absent, removed, resp>>

\* No response is in flight: the server is waiting for a request.
NoResponse == Response("none", 0, "", [items |-> <<>>])
Idle == resp = NoResponse

\* The response reaches the client; the server takes the next request.
Deliver ==
  /\ ~Idle
  /\ resp' = NoResponse
  /\ UNCHANGED <<stores, nextId, now, absent, removed>>

Next ==
  \/ Idle /\ \E b \in MemberBodies :
       CreateMember(b.name, b.contact, b.membershipStatus)
  \/ Idle /\ ListMembers
  \/ Idle /\ \E id \in Keys : GetMember(id)
  \/ Idle /\ \E id \in Keys : \E b \in MemberBodies :
       UpdateMember(id, b.name, b.contact, b.membershipStatus)
  \/ Idle /\ \E id \in Keys : DeleteMember(id)
  \/ Idle /\ \E b \in EventBodies :
       CreateEvent(b.title, b.description, b.dateTime, b.location)
  \/ Idle /\ ListEvents
  \/ Idle /\ \E b \in DonationBodies : CreateDonation(b.donorId, b.amount)
  \/ Idle /\ ListDonations
  \/ Idle /\ \E b \in ContributionBodies :
       CreateContribution(b.memberId, b.type, b.amount, b.description,
                          b.commitmentDate)
  \/ Idle /\ ListContributions
  \/ Idle /\ \E b \in PrayerRequestBodies :
       CreatePrayerRequest(b.memberId, b.request)
  \/ Idle /\ ListPrayerRequests
  \/ Idle /\ \E b \in ContentBodies : CreateContent(b.type, b.title, b.content)
  \/ Idle /\ ListContents
  \/ Idle /\ Tick
  \/ Deliver

Spec == Init /\ [][Next]_vars

(***************************************************************************)
(* Vocabulary of the properties.                                           *)
(***************************************************************************)
CreateOps == {"createMember", "createEvent", "createDonation",
              "createContribution", "createPrayerRequest", "createContent"}
NonEmptyString(v) == v.k = "string" /\ v.s # ""
IsNumber(v) == v.k = "number"
\* r is among the records values() returns for the store
Listed(store, r) ==
  \E i \in 1..Len(StoreValues(store)) : StoreValues(store)[i] = r
\* new is old with exactly the record r added under the unused key r.id
AddedOne(old, new, r) ==
  /\ r.id \notin DOMAIN old
  /\ DOMAIN new = DOMAIN old \cup {r.id}
  /\ Cardinality(DOMAIN new) = Cardinality(DOMAIN old) + 1
  /\ new[r.id] = r
  /\ \A x \in DOMAIN old : new[x] = old[x]
\* The request just answered is op, answered with status.
Answered(op, status) == resp'.op = op /\ resp'.status = status

(***************************************************************************)
(* C1: a createContribution request that passes validation and names a     *)
(* memberId that is not a key of the Member store is answered 404 and      *)
(* leaves the Contribution store unchanged, whatever get returns for a     *)
(* missing key.                                                            *)
(***************************************************************************)
C1_ReferentialIntegrity ==
  [][(/\ resp'.op = "createContribution"
      /\ resp'.status # 400
      /\ resp'.body.memberId.s \notin DOMAIN membersStorage)
     => /\ resp'.status = 404
        /\ contributionsStorage' = contributionsStorage]_vars

(***************************************************************************)
(* C2: a Create or an updateMember on an existing member that is answered  *)
(* 400 leaves all six stores as they were.                                 *)
(***************************************************************************)
C2_ValidationFailureKeepsStores ==
  [][(resp'.status = 400 /\ resp'.op \in CreateOps \cup {"updateMember"})
     => stores' = stores]_vars

\* An updateMember on an existing member was answered 400.
C2_Witness ==
  /\ resp.op = "updateMember"
  /\ resp.status = 400
  /\ resp.id \in DOMAIN membersStorage
  /\ membersStorage[resp.id].name # resp.body.name

(***************************************************************************)
(* C3: updateMember and deleteMember of an id that is not a key of the     *)
(* Member store are answered 404, with any payload, and leave all six      *)
(* stores as they were.                                                    *)
(***************************************************************************)
C3_AbsentMemberNotFound ==
  [][(/\ resp'.op \in {"updateMember", "deleteMember"}
      /\ resp'.id \notin DOMAIN membersStorage)
     => /\ resp'.status = 404
        /\ stores' = stores]_vars

\* An updateMember with an ill-formed body, on an id deleted earlier, was
\* answered 404.
C3_Witness ==
  /\ resp.op = "updateMember"
  /\ resp.status = 404
  /\ resp.id \in removed
  /\ ~Truthy(resp.body.name)

(***************************************************************************)
(* C4 as claimed: after a successful Create the stored record holds every  *)
(* supplied field; a Contribution's commitmentDate is the supplied one     *)
(* whenever one is supplied, for every type, and the creation time only    *)
(* when none is supplied.                                                  *)
(***************************************************************************)
C4_RoundTripAsClaimed ==
  [][Answered("createContribution", 201)
     => LET b == resp'.body
            r == contributionsStorage'[resp'.id]
        IN /\ r.memberId = b.memberId /\ r.type = b.type
           /\ r.amount = b.amount /\ r.description = b.description
           /\ r.commitmentDate = IF b.commitmentDate # Undef
                                 THEN NewDate(b.commitmentDate)
                                 ELSE DateOf(now)
           /\ r.fulfillmentDate = Null]_vars

(***************************************************************************)
(* C4 amended: after a successful Create, get (Member) and list (every     *)
(* type) show at the returned id a record with the generated id, the       *)
(* creation time as createdAt and every supplied field, timestamps as the  *)
(* Date built from the supplied value; a Contribution's commitmentDate is  *)
(* the Date built from the supplied value when type is "Pledge" and the    *)
(* creation time for every other type, supplied or not, and its            *)
(* fulfillmentDate is null.                                                *)
(***************************************************************************)
C4_RoundTrip ==
  [][LET b == resp'.body
         t == DateOf(now)
     IN /\ Answered("createMember", 201) =>
             LET r == [id |-> uuidv4, name |-> b.name, contact |-> b.contact,
                       membershipStatus |-> b.membershipStatus, createdAt |-> t]
             IN /\ resp'.id = r.id
                /\ StoreGet(membersStorage', r.id) = [k |-> "record", rec |-> r]
                /\ Listed(membersStorage', r)
        /\ Answered("createEvent", 201) =>
             LET r == [id |-> uuidv4, title |-> b.title,
                       description |-> b.description,
                       dateTime |-> NewDate(b.dateTime),
                       location |-> b.location, createdAt |-> t]
             IN resp'.id = r.id /\ Listed(eventsStorage', r)
        /\ Answered("createDonation", 201) =>
             LET r == [id |-> uuidv4, donorId |-> b.donorId,
                       amount |-> b.amount, createdAt |-> t]
             IN resp'.id = r.id /\ Listed(donationsStorage', r)
        /\ Answered("createContribution", 201) =>
             LET r == [id |-> uuidv4, memberId |-> b.memberId, type |-> b.type,
                       amount |-> b.amount, description |-> b.description,
                       commitmentDate |-> IF b.type = Str("Pledge")
                                          THEN NewDate(b.commitmentDate)
                                          ELSE t,
                       fulfillmentDate |-> Null, createdAt |-> t]
             IN resp'.id = r.id /\ Listed(contributionsStorage', r)
        /\ Answered("createPrayerRequest", 201) =>
             LET r == [id |-> uuidv4, memberId |-> b.memberId,
                       request |-> b.request, createdAt |-> t]
             IN resp'.id = r.id /\ Listed(prayerRequestsStorage', r)
        /\ Answered("createContent", 201) =>
             LET r == [id |-> uuidv4, type |-> b.type, title |-> b.title,
                       content |-> b.content, createdAt |-> t]
             IN resp'.id = r.id /\ Listed(contentStorage', r)]_vars

\* A contribution of a type other than "Pledge" was created from a body
\* that supplied a commitmentDate, and is stored with its creation time.
C4_Witness ==
  /\ resp.op = "createContribution"
  /\ resp.status = 201
  /\ resp.body.type = Str("Tithe")
  /\ resp.body.commitmentDate = Str(Iso5)
  /\ resp.id \in DOMAIN contributionsStorage
  /\ contributionsStorage[resp.id].commitmentDate
       = contributionsStorage[resp.id].createdAt
  /\ contributionsStorage[resp.id].commitmentDate # DateOf(5)

(***************************************************************************)
(* C5: a "Pledge" request without commitmentDate is answered 400 whether   *)
(* or not memberId names a member; a "Pledge" request with a               *)
(* commitmentDate, a string memberId that is a key of the Member store, a  *)
(* string description and a number amount is answered 201 and inserts      *)
(* exactly one Contribution holding that commitmentDate.                   *)
(***************************************************************************)
C5_PledgeGating ==
  [][resp'.op = "createContribution" =>
       LET b == resp'.body
       IN /\ (b.type = Str("Pledge") /\ b.commitmentDate = Undef)
               => resp'.status = 400
          /\ (/\ b.type = Str("Pledge")
              /\ b.commitmentDate # Undef
              /\ NonEmptyString(b.memberId)
              /\ b.memberId.s \in DOMAIN membersStorage
              /\ IsNumber(b.amount)
              /\ NonEmptyString(b.description))
               => /\ resp'.status = 201
                  /\ resp'.id \in DOMAIN contributionsStorage'
                  /\ AddedOne(contributionsStorage, contributionsStorage',
                              contributionsStorage'[resp'.id])
                  /\ contributionsStorage'[resp'.id].commitmentDate
                       = NewDate(b.commitmentDate)]_vars

\* The same with the amount required to be a number other than zero.
C5_PledgeGatingNonZeroAmount ==
  [][resp'.op = "createContribution" =>
       LET b == resp'.body
       IN /\ (b.type = Str("Pledge") /\ b.commitmentDate = Undef)
               => resp'.status = 400
          /\ (/\ b.type = Str("Pledge")
              /\ b.commitmentDate # Undef
              /\ NonEmptyString(b.memberId)
              /\ b.memberId.s \in DOMAIN membersStorage
              /\ IsNumber(b.amount) /\ b.amount.n # 0
              /\ NonEmptyString(b.description))
               => /\ resp'.status = 201
                  /\ resp'.id \in DOMAIN contributionsStorage'
                  /\ AddedOne(contributionsStorage, contributionsStorage',
                              contributionsStorage'[resp'.id])
                  /\ contributionsStorage'[resp'.id].commitmentDate
                       = NewDate(b.commitmentDate)]_vars

(***************************************************************************)
(* C6: createDonation is answered 201 exactly when donorId is a non-empty  *)
(* string and amount is a number (zero and negative included), and 400     *)
(* otherwise; createContribution rejects a body whose other fields are     *)
(* well-formed only when amount is missing or not a number.                *)
(***************************************************************************)
C6_AmountAcceptsEveryNumber ==
  /\ resp.op = "createDonation" =>
       /\ resp.status \in {201, 400}
       /\ resp.status = 201 <=>
            (NonEmptyString(resp.body.donorId) /\ IsNumber(resp.body.amount))
  /\ (/\ resp.op = "createContribution"
      /\ resp.status = 400
      /\ NonEmptyString(resp.body.memberId)
      /\ NonEmptyString(resp.body.type)
      /\ NonEmptyString(resp.body.description)
      /\ resp.body.type = Str("Pledge") => resp.body.commitmentDate # Undef)
       => ~IsNumber(resp.body.amount)

(***************************************************************************)
(* C7: a successful deleteMember(id) removes exactly the record at id from *)
(* the Member store and leaves the other five stores unchanged, so the     *)
(* contributions naming id are still listed; a later createContribution    *)
(* naming that id is answered 404.                                         *)
(***************************************************************************)
C7_DeleteDoesNotCascade ==
  [][/\ Answered("deleteMember", 200) =>
          /\ resp'.id \in DOMAIN membersStorage
          /\ membersStorage' = StoreRemove(membersStorage, resp'.id)
          /\ <<eventsStorage, donationsStorage, prayerRequestsStorage,
               contentStorage, contributionsStorage>>'
               = <<eventsStorage, donationsStorage, prayerRequestsStorage,
                   contentStorage, contributionsStorage>>
          /\ \A x \in DOMAIN contributionsStorage :
               Listed(contributionsStorage', contributionsStorage[x])
     /\ (/\ resp'.op = "createContribution"
         /\ resp'.status # 400
         /\ resp'.body.memberId.s \in removed)
          => resp'.status = 404]_vars

\* The first half alone: the delete itself.
C7_DeleteFrame ==
  [][Answered("deleteMember", 200) =>
          /\ resp'.id \in DOMAIN membersStorage
          /\ membersStorage' = StoreRemove(membersStorage, resp'.id)
          /\ <<eventsStorage, donationsStorage, prayerRequestsStorage,
               contentStorage, contributionsStorage>>'
               = <<eventsStorage, donationsStorage, prayerRequestsStorage,
                   contentStorage, contributionsStorage>>
          /\ \A x \in DOMAIN contributionsStorage :
               Listed(contributionsStorage', contributionsStorage[x])]_vars

\* A contribution is listed whose member has been deleted.
C7_DanglingReference ==
  /\ resp.op = "listContributions"
  /\ \E i \in 1..Len(resp.body.items) : resp.body.items[i].memberId.s \in removed

(***************************************************************************)
(* C8: every record in the Member store has a name, a contact and a        *)
(* membershipStatus that are non-empty strings.                            *)
(***************************************************************************)
C8_MemberFieldsAreStrings ==
  \A x \in DOMAIN membersStorage :
    /\ NonEmptyString(membersStorage[x].name)
    /\ NonEmptyString(membersStorage[x].contact)
    /\ NonEmptyString(membersStorage[x].membershipStatus)

(***************************************************************************)
(* C9: every record is stored under its own id, so no two records of a     *)
(* store share an id; a successful Create adds exactly one record to its   *)
(* store under a key not in use and changes no existing record; an id      *)
(* removed by deleteMember is never a Member's id again.                   *)
(***************************************************************************)
KeysAreIds(store) ==
  /\ \A x \in DOMAIN store : store[x].id = x
  /\ \A x, y \in DOMAIN store : store[x].id = store[y].id => x = y
CreatedOne(op, old, new) ==
  Answered(op, 201) =>
    /\ resp'.id \in DOMAIN new
    /\ AddedOne(old, new, new[resp'.id])
C9_IdentifiersUnique ==
  [][/\ KeysAreIds(membersStorage') /\ KeysAreIds(eventsStorage')
     /\ KeysAreIds(donationsStorage') /\ KeysAreIds(contributionsStorage')
     /\ KeysAreIds(prayerRequestsStorage') /\ KeysAreIds(contentStorage')
     /\ CreatedOne("createMember", membersStorage, membersStorage')
     /\ CreatedOne("createEvent", eventsStorage, eventsStorage')
     /\ CreatedOne("createDonation", donationsStorage, donationsStorage')
     /\ CreatedOne("createContribution", contributionsStorage,
                   contributionsStorage')
     /\ CreatedOne("createPrayerRequest", prayerRequestsStorage,
                   prayerRequestsStorage')
     /\ CreatedOne("createContent", contentStorage, contentStorage')
     /\ Answered("createMember", 201) => resp'.id \notin removed
     /\ removed' \cap DOMAIN membersStorage' = {}]_vars

\* A second member was created after another member had been deleted.
C9_Witness ==
  /\ resp.op = "createMember"
  /\ resp.status = 201
  /\ removed # {}
  /\ resp.id \in DOMAIN membersStorage
  /\ resp.id \notin removed

(***************************************************************************)
(* C10: a successful updateMember keeps the record's id and createdAt and  *)
(* its key, sets name, contact and membershipStatus to the supplied        *)
(* values, and changes no other Member record, no key of the Member store  *)
(* and none of the other five stores.                                      *)
(***************************************************************************)
C10_UpdateTouchesThreeFields ==
  [][Answered("updateMember", 200) =>
       LET id == resp'.id
           b == resp'.body
       IN /\ id \in DOMAIN membersStorage
          /\ DOMAIN membersStorage' = DOMAIN membersStorage
          /\ membersStorage'[id].id = membersStorage[id].id
          /\ membersStorage'[id].id = id
          /\ membersStorage'[id].createdAt = membersStorage[id].createdAt
          /\ membersStorage'[id].name = b.name
          /\ membersStorage'[id].contact = b.contact
          /\ membersStorage'[id].membershipStatus = b.membershipStatus
          /\ \A x \in DOMAIN membersStorage \ {id} :
               membersStorage'[x] = membersStorage[x]
          /\ <<eventsStorage, donationsStorage, prayerRequestsStorage,
               contentStorage, contributionsStorage>>'
               = <<eventsStorage, donationsStorage, prayerRequestsStorage,
                   contentStorage, contributionsStorage>>]_vars

\* A member created at an earlier time was updated, next to another member.
C10_Witness ==
  /\ resp.op = "updateMember"
  /\ resp.status = 200
  /\ resp.id \in DOMAIN membersStorage
  /\ membersStorage[resp.id].createdAt # DateOf(now)
  /\ membersStorage[resp.id].name = Num(7)
  /\ Cardinality(DOMAIN membersStorage) = 2
====
